---- MODULE Spec2Model ----
(***************************************************************************)
(* Model of data/index/abc_counter-personsplaces.py: the scan of a corpus  *)
(* of TEI documents for <persName>/<placeName> elements, the merge of the  *)
(* per-document results into corpus-wide maps, and the assembly of the     *)
(* sorted JSON records.                                                    *)
(*                                                                         *)
(* Strings are tuples of one-character strings, so that whitespace         *)
(* collapsing, the removal of "(span) " and the lexical order are computed *)
(* character by character.  An absent XML attribute and an empty one are   *)
(* both the empty tuple: the code only ever tests el.get(..) for truth.    *)
(* File names are the integers 1..NumFiles, whose numeric order stands for *)
(* the ascending order of the names.                                       *)
(***************************************************************************)
EXTENDS Integers, Sequences, FiniteSets, TLC

\* ------------------------------------------------------------------ bounds
\* Number of *.xml files the directory can hold.
NumFiles == 2
\* Number of entity elements in the whole corpus.
MaxOcc == 3

\* ----------------------------------------------------------------- strings
\* Code point of a character (Python compares str by code point).
Code(c) ==
    CASE c = "\t" -> 9
      [] c = " "  -> 32
      [] c = "("  -> 40
      [] c = ")"  -> 41
      [] c = "a"  -> 97
      [] c = "b"  -> 98
      [] c = "n"  -> 110
      [] c = "p"  -> 112
      [] c = "s"  -> 115

\* a < b for Python str.
StrLess(a, b) ==
    LET n == IF Len(a) < Len(b) THEN Len(a) ELSE Len(b) IN
    \/ \E i \in 1..n : /\ \A j \in 1..(i - 1) : a[j] = b[j]
                       /\ Code(a[i]) < Code(b[i])
    \/ /\ Len(a) < Len(b)
       /\ \A j \in 1..n : a[j] = b[j]

\* Characters matched by the regex class \s (and removed by str.strip()).
IsSpace(c) == c \in {" ", "\t"}

\* _space_re.sub(" ", s): every maximal run of whitespace becomes one space.
RECURSIVE SubSpaces(_)
SubSpaces(s) ==
    IF s = <<>> THEN <<>>
    ELSE IF IsSpace(Head(s))
         THEN IF Len(s) > 1 /\ IsSpace(s[2])
              THEN SubSpaces(Tail(s))
              ELSE <<" ">> \o SubSpaces(Tail(s))
         ELSE <<Head(s)>> \o SubSpaces(Tail(s))

\* str.strip()
RECURSIVE LStrip(_)
LStrip(s) == IF s # <<>> /\ IsSpace(Head(s)) THEN LStrip(Tail(s)) ELSE s

RECURSIVE RStrip(_)
RStrip(s) ==
    IF s # <<>> /\ IsSpace(s[Len(s)]) THEN RStrip(SubSeq(s, 1, Len(s) - 1)) ELSE s

Strip(s) == RStrip(LStrip(s))

collapse_spaces(s) == Strip(SubSpaces(s))

\* " ".join(parts)
RECURSIVE JoinSpace(_)
JoinSpace(parts) ==
    IF parts = <<>> THEN <<>>
    ELSE IF Len(parts) = 1 THEN parts[1]
    ELSE parts[1] \o <<" ">> \o JoinSpace(Tail(parts))

SpanPrefix == <<"(", "s", "p", "a", "n", ")", " ">>

\* s.replace("(span) ", "")
RECURSIVE clean_lemma(_)
clean_lemma(s) ==
    IF s = <<>> THEN <<>>
    ELSE IF Len(s) >= Len(SpanPrefix) /\ SubSeq(s, 1, Len(SpanPrefix)) = SpanPrefix
         THEN clean_lemma(SubSeq(s, Len(SpanPrefix) + 1, Len(s)))
         ELSE <<Head(s)>> \o clean_lemma(Tail(s))

\* sorted(S) for a set of str
RECURSIVE SortedStrings(_)
SortedStrings(S) ==
    IF S = {} THEN <<>>
    ELSE LET m == CHOOSE x \in S : \A y \in S : x = y \/ StrLess(x, y)
         IN <<m>> \o SortedStrings(S \ {m})

\* dict[k] = v
Put(d, k, v) == [x \in DOMAIN d \cup {k} |-> IF x = k THEN v ELSE d[x]]

\* ------------------------------------------------------------------ inputs
\* Descendant <w> sequences of an entity element: lemma is @lemma, text the
\* text content of the <w>.
W_none  == <<>>
W_span  == << [lemma |-> SpanPrefix \o <<"a">>, text |-> <<"a">>] >>
W_mixed == << [lemma |-> <<>>, text |-> <<"b">>],
              [lemma |-> <<"a">>, text |-> <<" ", "a">>] >>
W_text  == << [lemma |-> <<>>, text |-> <<"b", "\t">>],
              [lemma |-> <<>>, text |-> <<>>] >>
W_blank == << [lemma |-> <<" ">>, text |-> <<" ">>] >>

KeyA == <<"a">>
KeyB == <<"b">>
NoKey == <<>>

El(tag, key, type, ws) == [tag |-> tag, key |-> key, type |-> type, ws |-> ws]

\* The entity elements a document is made of.
Elements ==
    { El("persName",  KeyA,  "",   W_span),
      El("persName",  KeyA,  "t1", W_mixed),
      El("persName",  KeyA,  "t2", W_none),
      El("persName",  KeyB,  "t2", W_mixed),
      El("persName",  KeyB,  "",   W_text),
      El("persName",  NoKey, "t1", W_span),
      El("placeName", KeyA,  "t2", W_blank),
      El("placeName", KeyB,  "",   W_span) }

\* Documents of at most n entity elements, in document order.
DocsUpTo(n) == UNION { [1..m -> Elements] : m \in 0..n }

\* ------------------------------------------------------------------ scanner
\* el.xpath(XPATH_W_TEXTS): the text nodes of the <w>; an empty <w> has none.
RECURSIVE WTexts(_)
WTexts(ws) ==
    IF ws = <<>> THEN <<>>
    ELSE IF Head(ws).text # <<>> THEN <<Head(ws).text>> \o WTexts(Tail(ws))
         ELSE WTexts(Tail(ws))

\* [w.get("lemma") for w in w_nodes if w.get("lemma")]
RECURSIVE WLemmas(_)
WLemmas(ws) ==
    IF ws = <<>> THEN <<>>
    ELSE IF Head(ws).lemma # <<>> THEN <<Head(ws).lemma>> \o WLemmas(Tail(ws))
         ELSE WLemmas(Tail(ws))

\* A mutant: the literal text is preferred over the canonical forms.
build_lemma_text_first(el) ==
    IF WTexts(el.ws) # <<>> THEN collapse_spaces(JoinSpace(WTexts(el.ws)))
    ELSE IF WLemmas(el.ws) # <<>> THEN collapse_spaces(JoinSpace(WLemmas(el.ws)))
    ELSE <<>>

build_lemma_from_w(el) ==
    IF WLemmas(el.ws) # <<>> THEN collapse_spaces(JoinSpace(WLemmas(el.ws)))
    ELSE IF WTexts(el.ws) # <<>> THEN collapse_spaces(JoinSpace(WTexts(el.ws)))
    ELSE <<>>

surface_from_w(el) ==
    IF WTexts(el.ws) = <<>> THEN <<>>
    ELSE collapse_spaces(JoinSpace(WTexts(el.ws)))

\* counts, local_key_to_lemma, local_variations, local_key_to_type at the start
EmptyLocal == [counts |-> <<>>, k2l |-> <<>>, vars |-> <<>>, k2t |-> <<>>]

\* counts[key] += 1
CountStep(counts, key) ==
    Put(counts, key, IF key \in DOMAIN counts THEN counts[key] + 1 ELSE 1)

\* if key not in local_key_to_lemma and lemma: local_key_to_lemma[key] = lemma
LocalLemmaStep(k2l, key, lemma) ==
    IF key \notin DOMAIN k2l /\ lemma # <<>> THEN Put(k2l, key, lemma) ELSE k2l

\* A mutant: every surface string is added, the empty one too.
LocalVarAlways(vars, key, surface) ==
    Put(vars, key, (IF key \in DOMAIN vars THEN vars[key] ELSE {}) \cup {surface})

\* if surface: local_variations[key].add(surface)
LocalVarStep(vars, key, surface) ==
    IF surface # <<>>
    THEN Put(vars, key, (IF key \in DOMAIN vars THEN vars[key] ELSE {}) \cup {surface})
    ELSE vars

\* A mutant: the last non-empty type of a key in the document is kept.
LocalTypeLast(k2t, key, t) == IF t # "" THEN Put(k2t, key, t) ELSE k2t

\* if t and (key not in local_key_to_type): local_key_to_type[key] = t
LocalTypeStep(k2t, key, t) ==
    IF t # "" /\ key \notin DOMAIN k2t THEN Put(k2t, key, t) ELSE k2t

\* A mutant: elements without @key are counted under the empty key.
ScanElNoSkip(loc, el) ==
    [counts |-> CountStep(loc.counts, el.key),
     k2l    |-> LocalLemmaStep(loc.k2l, el.key, build_lemma_from_w(el)),
     vars   |-> LocalVarStep(loc.vars, el.key, surface_from_w(el)),
     k2t    |-> LocalTypeStep(loc.k2t, el.key, el.type)]

\* One iteration of "for el in hits".
ScanEl(loc, el) ==
    IF el.key = <<>> THEN loc
    ELSE [counts |-> CountStep(loc.counts, el.key),
          k2l    |-> LocalLemmaStep(loc.k2l, el.key, build_lemma_from_w(el)),
          vars   |-> LocalVarStep(loc.vars, el.key, surface_from_w(el)),
          k2t    |-> LocalTypeStep(loc.k2t, el.key, el.type)]

\* The loop over hits, from the first hit to the last.
RECURSIVE ScanHits(_)
ScanHits(hits) ==
    IF hits = <<>> THEN EmptyLocal
    ELSE ScanEl(ScanHits(SubSeq(hits, 1, Len(hits) - 1)), hits[Len(hits)])

\* doc.tree.xpath(xpath_tag(tag)): the elements of that tag, in document order
Hits(doc, tag) == SelectSeq(doc, LAMBDA el : el.tag = tag)

count_keys_in_file(doc, tag) == ScanHits(Hits(doc, tag))

\* ---------------------------------------------------------------- assembler
\* all_keys: the keys of every per-file Counter
AllKeys(per_file_counts) ==
    UNION { DOMAIN per_file_counts[f] : f \in DOMAIN per_file_counts }

\* df[fname][k] after reindex(df.index).fillna(0), and after the final fillna(0)
\* for a column no Counter was stored for
Cell(per_file_counts, k, fname) ==
    IF fname \in DOMAIN per_file_counts /\ k \in DOMAIN per_file_counts[fname]
    THEN per_file_counts[fname][k]
    ELSE 0

\* A mutant: the first file's column is left out of the sum.
RowTotalSkipFirst(per_file_counts, file_names, k) ==
    LET SumFrom[n \in 1..(Len(file_names) + 1)] ==
            IF n > Len(file_names) THEN 0
            ELSE Cell(per_file_counts, k, file_names[n]) + SumFrom[n + 1]
    IN IF file_names = <<>> THEN 0 ELSE SumFrom[2]

\* df.select_dtypes("number").sum(axis=1): the sum of the file columns of row k
RECURSIVE RowTotal(_, _, _)
RowTotal(per_file_counts, file_names, k) ==
    IF file_names = <<>> THEN 0
    ELSE Cell(per_file_counts, k, Head(file_names))
         + RowTotal(per_file_counts, Tail(file_names), k)

\* key_to_lemma.get(k) cleaned, "" when the key has no lemma
RowLemma(key_to_lemma, k) ==
    IF k \in DOMAIN key_to_lemma THEN clean_lemma(key_to_lemma[k]) ELSE <<>>

\* A mutant: TOTAL ascending.
RowBeforeAscending(r, s) ==
    \/ r.TOTAL < s.TOTAL
    \/ r.TOTAL = s.TOTAL /\ StrLess(r.lemma, s.lemma)
    \/ r.TOTAL = s.TOTAL /\ r.lemma = s.lemma /\ StrLess(r.key, s.key)

\* by=["TOTAL", "lemma", "key"], ascending=[False, True, True]
RowBefore(r, s) ==
    \/ r.TOTAL > s.TOTAL
    \/ r.TOTAL = s.TOTAL /\ StrLess(r.lemma, s.lemma)
    \/ r.TOTAL = s.TOTAL /\ r.lemma = s.lemma /\ StrLess(r.key, s.key)

\* r goes before the first row it precedes (a stable insertion).
RECURSIVE InsertRow(_, _)
InsertRow(r, rows) ==
    IF rows = <<>> THEN <<r>>
    ELSE IF RowBefore(r, Head(rows)) THEN <<r>> \o rows
         ELSE <<Head(rows)>> \o InsertRow(r, Tail(rows))

\* df.sort_values(...)
RECURSIVE sort_values(_)
sort_values(rows) ==
    IF rows = <<>> THEN <<>>
    ELSE InsertRow(rows[Len(rows)], sort_values(SubSeq(rows, 1, Len(rows) - 1)))

\* A mutant: files with a count of zero are listed too.
FilesListAll(per_file_counts, file_names, k) ==
    [n \in 1..Len(file_names) |->
        [file |-> file_names[n], count |-> Cell(per_file_counts, k, file_names[n])]]

\* [{"file": col, "count": int(row[col])} for col in file_names if int(row[col]) > 0]
RECURSIVE FilesList(_, _, _)
FilesList(per_file_counts, file_names, k) ==
    IF file_names = <<>> THEN <<>>
    ELSE (IF Cell(per_file_counts, k, Head(file_names)) > 0
          THEN << [file  |-> Head(file_names),
                   count |-> Cell(per_file_counts, k, Head(file_names))] >>
          ELSE <<>>)
         \o FilesList(per_file_counts, Tail(file_names), k)

assemble_records(file_names, per_file_counts, key_to_lemma, key_to_variations, key_to_type) ==
    LET index == SortedStrings(AllKeys(per_file_counts))
        df == [n \in 1..Len(index) |->
                 [key   |-> index[n],
                  lemma |-> RowLemma(key_to_lemma, index[n]),
                  TOTAL |-> RowTotal(per_file_counts, file_names, index[n])]]
        sorted == sort_values(df)
    IN  [n \in 1..Len(sorted) |->
           LET k == sorted[n].key IN
           [key        |-> k,
            lemma      |-> sorted[n].lemma,
            TOTAL      |-> sorted[n].TOTAL,
            type       |-> IF k \in DOMAIN key_to_type THEN key_to_type[k] ELSE "",
            files      |-> FilesList(per_file_counts, file_names, k),
            variations |-> SortedStrings(IF k \in DOMAIN key_to_variations
                                         THEN key_to_variations[k] ELSE {})]]

\* --------------------------------------------------------------------- main
VARIABLES
    pc,                          \* where main() is
    files,                       \* sorted(XML_DIR.glob(GLOB))
    i,                           \* position of the for loop in files
    docs,                        \* file name -> content of the files read so far
    per_file_counts_persons, key_to_lemma_persons,
    key_to_variations_persons, key_to_type_persons,
    per_file_counts_places, key_to_lemma_places,
    key_to_variations_places, key_to_type_places,
    written,                     \* the output file has been written
    out,                         \* what was written
    error                        \* 0, or the file whose parse raised

persons == <<per_file_counts_persons, key_to_lemma_persons,
             key_to_variations_persons, key_to_type_persons>>
places  == <<per_file_counts_places, key_to_lemma_places,
             key_to_variations_places, key_to_type_places>>
vars == <<pc, files, i, docs, persons, places, written, out, error>>

Init ==
    /\ pc = "start"
    /\ files = <<>>
    /\ i = 0
    /\ docs = <<>>
    /\ per_file_counts_persons = <<>>
    /\ key_to_lemma_persons = <<>>
    /\ key_to_variations_persons = <<>>
    /\ key_to_type_persons = <<>>
    /\ per_file_counts_places = <<>>
    /\ key_to_lemma_places = <<>>
    /\ key_to_variations_places = <<>>
    /\ key_to_type_places = <<>>
    /\ written = FALSE
    /\ out = [persons |-> <<>>, places |-> <<>>]
    /\ error = 0

\* A mutant: the files are taken in descending order.
RECURSIVE SortedFilesDescending(_)
SortedFilesDescending(S) ==
    IF S = {} THEN <<>>
    ELSE LET m == CHOOSE x \in S : \A y \in S : x >= y
         IN <<m>> \o SortedFilesDescending(S \ {m})

\* sorted(...) of the globbed paths
RECURSIVE SortedFiles(_)
SortedFiles(S) ==
    IF S = {} THEN <<>>
    ELSE LET m == CHOOSE x \in S : \A y \in S : x <= y
         IN <<m>> \o SortedFiles(S \ {m})

\* files = sorted(XML_DIR.glob(GLOB)); if not files: raise SystemExit
Discover ==
    /\ pc = "start"
    /\ \E S \in SUBSET (1..NumFiles) :
          /\ files' = SortedFiles(S)
          /\ pc' = IF S = {} THEN "exit" ELSE "persons"
          /\ i' = IF S = {} THEN 0 ELSE 1
    /\ UNCHANGED <<docs, persons, places, written, out, error>>

\* Entity elements in the files read so far.
RECURSIVE ElementsIn(_, _)
ElementsIn(d, S) ==
    IF S = {} THEN 0
    ELSE LET f == CHOOSE x \in S : TRUE IN Len(d[f]) + ElementsIn(d, S \ {f})

ElementsRead == ElementsIn(docs, DOMAIN docs)

\* A mutant: the last document supplying a lemma wins.
MergeLemmaLast(key_to_lemma, k2l) ==
    [k \in DOMAIN key_to_lemma \cup DOMAIN k2l |->
        IF k \in DOMAIN k2l THEN k2l[k] ELSE key_to_lemma[k]]

\* for k, l in k2l.items(): if k not in key_to_lemma and l: key_to_lemma[k] = l
MergeLemma(key_to_lemma, k2l) ==
    [k \in DOMAIN key_to_lemma \cup {x \in DOMAIN k2l : k2l[x] # <<>>} |->
        IF k \in DOMAIN key_to_lemma THEN key_to_lemma[k] ELSE k2l[k]]

\* for k, vs in p_vars.items(): key_to_variations[k].update(vs)
MergeVariations(key_to_variations, lvars) ==
    [k \in DOMAIN key_to_variations \cup DOMAIN lvars |->
        (IF k \in DOMAIN key_to_variations THEN key_to_variations[k] ELSE {})
        \cup (IF k \in DOMAIN lvars THEN lvars[k] ELSE {})]

\* A mutant: the last document supplying a type wins.
MergeTypeLast(key_to_type, k2t) ==
    [k \in DOMAIN key_to_type \cup DOMAIN k2t |->
        IF k \in DOMAIN k2t THEN k2t[k] ELSE key_to_type[k]]

\* for k, t in k2t.items(): if k not in key_to_type and t: key_to_type[k] = t
MergeType(key_to_type, k2t) ==
    [k \in DOMAIN key_to_type \cup {x \in DOMAIN k2t : k2t[x] # ""} |->
        IF k \in DOMAIN key_to_type THEN key_to_type[k] ELSE k2t[k]]

\* The persons half of the loop body, for files[i]; the file is read here.
ScanPersons ==
    /\ pc = "persons"
    /\ \E doc \in DocsUpTo(MaxOcc - ElementsRead) :
          LET r == count_keys_in_file(doc, "persName") IN
          /\ docs' = Put(docs, files[i], doc)
          /\ per_file_counts_persons' = Put(per_file_counts_persons, files[i], r.counts)
          /\ key_to_lemma_persons' = MergeLemma(key_to_lemma_persons, r.k2l)
          /\ key_to_variations_persons' = MergeVariations(key_to_variations_persons, r.vars)
          /\ key_to_type_persons' = MergeType(key_to_type_persons, r.k2t)
    /\ pc' = "places"
    /\ UNCHANGED <<files, i, places, written, out, error>>

\* The places half of the loop body, for files[i], and the step to the next file.
ScanPlaces ==
    /\ pc = "places"
    /\ LET r == count_keys_in_file(docs[files[i]], "placeName") IN
          /\ per_file_counts_places' = Put(per_file_counts_places, files[i], r.counts)
          /\ key_to_lemma_places' = MergeLemma(key_to_lemma_places, r.k2l)
          /\ key_to_variations_places' = MergeVariations(key_to_variations_places, r.vars)
          /\ key_to_type_places' = MergeType(key_to_type_places, r.k2t)
    /\ pc' = IF i < Len(files) THEN "persons" ELSE "assemble"
    /\ i' = IF i < Len(files) THEN i + 1 ELSE i
    /\ UNCHANGED <<files, docs, persons, written, out, error>>

\* A mutant: a document that does not parse is skipped.
ParseSkip ==
    /\ pc \in {"persons", "places"}
    /\ error' = files[i]
    /\ pc' = IF i < Len(files) THEN "persons" ELSE "assemble"
    /\ i' = IF i < Len(files) THEN i + 1 ELSE i
    /\ UNCHANGED <<files, docs, persons, places, written, out>>

\* TeiReader(str(xml_path)) raises: nothing in main() catches it.
ParseFail ==
    /\ pc \in {"persons", "places"}
    /\ error' = files[i]
    /\ pc' = "aborted"
    /\ UNCHANGED <<files, i, docs, persons, places, written, out>>

\* assemble_records for both kinds, then json.dump to the output file
WriteOutput ==
    /\ pc = "assemble"
    /\ out' = [persons |-> assemble_records(files, per_file_counts_persons,
                                            key_to_lemma_persons,
                                            key_to_variations_persons,
                                            key_to_type_persons),
               places  |-> assemble_records(files, per_file_counts_places,
                                            key_to_lemma_places,
                                            key_to_variations_places,
                                            key_to_type_places)]
    /\ written' = TRUE
    /\ pc' = "done"
    /\ UNCHANGED <<files, i, docs, persons, places, error>>

Next == Discover \/ ScanPersons \/ ScanPlaces \/ ParseFail \/ WriteOutput

Spec == Init /\ [][Next]_vars

\* ------------------------------------------------------- what the claims use
Tags == {"persName", "placeName"}
Keys == {KeyA, KeyB}

Range(seq) == { seq[n] : n \in 1..Len(seq) }

\* The emitted list of one kind.
Emitted(tag) == IF tag = "persName" THEN out.persons ELSE out.places

\* Positions in a document of the occurrences of kind tag carrying key k.
OccsAt(doc, tag, k) == { n \in 1..Len(doc) : doc[n].tag = tag /\ doc[n].key = k }

Occs(doc, tag, k) == Cardinality(OccsAt(doc, tag, k))

\* Files read so far that hold a keyed occurrence of k of kind tag.
FilesWith(tag, k) == { f \in DOMAIN docs : Occs(docs[f], tag, k) > 0 }

RECURSIVE SumCounts(_)
SumCounts(fl) == IF fl = <<>> THEN 0 ELSE Head(fl).count + SumCounts(Tail(fl))

\* C1: in every emitted record, of either kind, TOTAL equals the sum of the
\* count fields of the record's files list.
C1_TotalIsSumOfFiles ==
    written =>
        \A tag \in Tags : \A n \in 1..Len(Emitted(tag)) :
            Emitted(tag)[n].TOTAL = SumCounts(Emitted(tag)[n].files)

\* A record whose occurrences are spread unevenly over two files.
C1_Witness ==
    /\ written
    /\ \E n \in 1..Len(out.persons) :
          /\ Len(out.persons[n].files) = 2
          /\ out.persons[n].files[1].count = 2
          /\ out.persons[n].TOTAL = 3

\* The lemma candidate document f yields for key k (empty when it yields none).
Candidate(f, tag, k) ==
    LET k2l == count_keys_in_file(docs[f], tag).k2l
    IN IF k \in DOMAIN k2l THEN k2l[k] ELSE <<>>

\* The first file, in processing order, holding a keyed occurrence of k.
FirstFileWith(tag, k) == CHOOSE f \in FilesWith(tag, k) : \A g \in FilesWith(tag, k) : f <= g

\* The case of C2: the first document containing k yields a non-empty candidate
\* and a later document yields a different one.
C2_Case(tag, k) ==
    /\ Cardinality(FilesWith(tag, k)) > 1
    /\ LET first == FirstFileWith(tag, k)
           X == Candidate(first, tag, k)
       IN /\ X # <<>>
          /\ \E g \in FilesWith(tag, k) :
                /\ g > first
                /\ Candidate(g, tag, k) # <<>>
                /\ Candidate(g, tag, k) # X

\* C2 as stated: in that case the emitted lemma of k is exactly the candidate X
\* of the first document.
C2_LemmaIsFirstCandidate ==
    written =>
        \A tag \in Tags : \A n \in 1..Len(Emitted(tag)) :
            LET k == Emitted(tag)[n].key IN
            C2_Case(tag, k) =>
                Emitted(tag)[n].lemma = Candidate(FirstFileWith(tag, k), tag, k)

\* C2 as amended: in that case the emitted lemma of k is the candidate X of the
\* first document with every "(span) " removed, never the later candidate's.
C2_LemmaIsCleanedFirstCandidate ==
    written =>
        \A tag \in Tags : \A n \in 1..Len(Emitted(tag)) :
            LET k == Emitted(tag)[n].key IN
            C2_Case(tag, k) =>
                Emitted(tag)[n].lemma =
                    clean_lemma(Candidate(FirstFileWith(tag, k), tag, k))

\* The first document's candidate starts with "(span) " and a later one differs.
C2_Witness ==
    /\ written
    /\ C2_Case("persName", KeyA)
    /\ Candidate(FirstFileWith("persName", KeyA), "persName", KeyA) = SpanPrefix \o <<"a">>
    /\ \E n \in 1..Len(out.persons) :
          out.persons[n].key = KeyA /\ out.persons[n].lemma = <<"a">>

\* C3: the files list of every emitted record is the subsequence of the
\* processing order (file names ascending) made of the files where the key has a
\* keyed occurrence of that kind, each with its number of occurrences there; no
\* count is <= 0 and no file appears twice.
C3_FilesList ==
    written =>
        /\ \A a, b \in 1..Len(files) : a < b => files[a] < files[b]
        /\ \A tag \in Tags : \A n \in 1..Len(Emitted(tag)) :
              LET rec == Emitted(tag)[n]
                  fl == rec.files
              IN /\ \A a, b \in 1..Len(fl) : a < b => fl[a].file < fl[b].file
                 /\ { fl[a].file : a \in 1..Len(fl) }
                        = { f \in Range(files) : Occs(docs[f], tag, rec.key) > 0 }
                 /\ \A a \in 1..Len(fl) :
                       /\ fl[a].count > 0
                       /\ fl[a].count = Occs(docs[fl[a].file], tag, rec.key)

\* One key occurs in both files, another only in the second.
C3_Witness ==
    /\ written
    /\ Len(files) = 2
    /\ \E n, m \in 1..Len(out.persons) :
          /\ Len(out.persons[n].files) = 2
          /\ Len(out.persons[m].files) = 1
          /\ out.persons[m].files[1].file = files[2]

\* r1 comes strictly before r2 in (TOTAL descending, lemma ascending, key ascending).
StrictlyBefore(r1, r2) ==
    \/ r1.TOTAL > r2.TOTAL
    \/ r1.TOTAL = r2.TOTAL /\ StrLess(r1.lemma, r2.lemma)
    \/ r1.TOTAL = r2.TOTAL /\ r1.lemma = r2.lemma /\ StrLess(r1.key, r2.key)

\* C4: the list of one kind is sorted by (TOTAL descending, emitted lemma
\* ascending, key ascending), strictly: any two adjacent records differ in that
\* order.
C4_Sorted ==
    written =>
        \A tag \in Tags : \A n \in 1..(Len(Emitted(tag)) - 1) :
            StrictlyBefore(Emitted(tag)[n], Emitted(tag)[n + 1])

\* The key with the larger TOTAL comes first although its lemma and key are the
\* larger ones.
C4_Witness ==
    /\ written
    /\ Len(out.persons) = 2
    /\ out.persons[1].TOTAL > out.persons[2].TOTAL
    /\ StrLess(out.persons[2].lemma, out.persons[1].lemma)
    /\ StrLess(out.persons[2].key, out.persons[1].key)

\* C5: a parse failure aborts the run at that document: nothing after it is
\* scanned and the output is not written; the output is written only when every
\* document has been scanned for both kinds.
C5_AllOrNothing ==
    /\ error # 0 =>
          /\ pc = "aborted"
          /\ ~written
          /\ DOMAIN per_file_counts_persons \subseteq { f \in Range(files) : f <= error }
          /\ DOMAIN per_file_counts_places \subseteq { f \in Range(files) : f < error }
    /\ written =>
          /\ error = 0
          /\ DOMAIN per_file_counts_persons = Range(files)
          /\ DOMAIN per_file_counts_places = Range(files)
    /\ pc = "done" => written
    /\ pc = "aborted" => error # 0

\* The first of two documents fails after its persons were scanned.
C5_Witness ==
    /\ pc = "aborted"
    /\ Len(files) = 2
    /\ error = files[1]
    /\ AllKeys(per_file_counts_persons) # {}

\* The non-empty keys carried by the occurrences of one kind in the corpus.
CorpusKeys(tag) ==
    { k \in Keys \cup {NoKey} : k # NoKey /\ FilesWith(tag, k) # {} }

\* C6: the list of one kind holds exactly one record per distinct non-empty key
\* of that kind's occurrences and no other record; no emitted key is empty.
C6_ExactlyTheKeys ==
    written =>
        \A tag \in Tags :
            /\ { Emitted(tag)[n].key : n \in 1..Len(Emitted(tag)) } = CorpusKeys(tag)
            /\ Len(Emitted(tag)) = Cardinality(CorpusKeys(tag))
            /\ \A n \in 1..Len(Emitted(tag)) : Emitted(tag)[n].key # <<>>

\* The only person occurrence has no key, and a place carries a key.
C6_Witness ==
    /\ written
    /\ FilesWith("persName", NoKey) # {}
    /\ out.persons = <<>>
    /\ out.places # <<>>

\* The surface string the claim describes: the collapsed join of the literal
\* text of all the tokens.
ClaimedSurface(el) ==
    collapse_spaces(JoinSpace([n \in 1..Len(el.ws) |-> el.ws[n].text]))

\* The surface strings of the keyed occurrences of k of kind tag in the corpus.
CorpusSurfaces(tag, k) ==
    UNION { { ClaimedSurface(docs[f][n]) : n \in OccsAt(docs[f], tag, k) } :
            f \in DOMAIN docs }

\* C7: the variations of every emitted record are sorted ascending, hold no
\* duplicate and no empty string, and are the non-empty collapsed surface strings
\* of the keyed occurrences of that key and kind in all documents.
C7_Variations ==
    written =>
        \A tag \in Tags : \A n \in 1..Len(Emitted(tag)) :
            LET v == Emitted(tag)[n].variations IN
            /\ \A a \in 1..(Len(v) - 1) : StrLess(v[a], v[a + 1])
            /\ \A a \in 1..Len(v) : v[a] # <<>>
            /\ Range(v) = CorpusSurfaces(tag, Emitted(tag)[n].key) \ {<<>>}

\* A key with two distinct surface strings and an occurrence without tokens.
C7_Witness ==
    /\ written
    /\ \E n \in 1..Len(out.persons) :
          /\ Len(out.persons[n].variations) = 2
          /\ <<>> \in CorpusSurfaces("persName", out.persons[n].key)

\* A first-seen map keeps every entry it has.
Kept(m) == \A k \in DOMAIN m : k \in DOMAIN m' /\ m'[k] = m[k]

\* A variation map loses no member.
Grown(m) == \A k \in DOMAIN m : k \in DOMAIN m' /\ m[k] \subseteq m'[k]

\* C8: a step of main never changes an entry of a first-seen lemma or type map,
\* never removes a variation, and never modifies the count table of a file
\* already processed.
C8_Monotone ==
    [][ /\ Kept(key_to_lemma_persons) /\ Kept(key_to_lemma_places)
        /\ Kept(key_to_type_persons) /\ Kept(key_to_type_places)
        /\ Grown(key_to_variations_persons) /\ Grown(key_to_variations_places)
        /\ Kept(per_file_counts_persons) /\ Kept(per_file_counts_places) ]_vars

\* The second document has been merged and its local lemma and type for a key
\* differ from the global entries, which the first document set.
C8_Witness ==
    /\ Len(files) = 2
    /\ files[2] \in DOMAIN per_file_counts_persons
    /\ \E k \in DOMAIN key_to_lemma_persons \cap DOMAIN key_to_type_persons :
          LET r == count_keys_in_file(docs[files[2]], "persName") IN
          /\ k \in DOMAIN r.k2l /\ r.k2l[k] # key_to_lemma_persons[k]
          /\ k \in DOMAIN r.k2t /\ r.k2t[k] # key_to_type_persons[k]

\* The occurrences of kind tag in the whole corpus, files ascending and document
\* order within a file.
RECURSIVE OccurrenceOrder(_, _)
OccurrenceOrder(fs, tag) ==
    IF fs = <<>> THEN <<>>
    ELSE Hits(docs[Head(fs)], tag) \o OccurrenceOrder(Tail(fs), tag)

\* The first non-empty type among the occurrences of k, in occurrence order.
StrictType(tag, k) ==
    LET occ == OccurrenceOrder(files, tag)
        typed == { n \in 1..Len(occ) : occ[n].key = k /\ occ[n].type # "" }
    IN IF typed = {} THEN ""
       ELSE occ[CHOOSE n \in typed : \A m \in typed : n <= m].type

\* A document holds two occurrences of the same key and kind with different
\* non-empty types.
ConflictingTypes ==
    \E f \in DOMAIN docs : \E a, b \in 1..Len(docs[f]) :
        /\ docs[f][a].tag = docs[f][b].tag
        /\ docs[f][a].key = docs[f][b].key
        /\ docs[f][a].key # <<>>
        /\ docs[f][a].type # ""
        /\ docs[f][b].type # ""
        /\ docs[f][a].type # docs[f][b].type

\* Some emitted type differs from the occurrence-order one.
Diverges ==
    \E tag \in Tags : \E n \in 1..Len(Emitted(tag)) :
        Emitted(tag)[n].type # StrictType(tag, Emitted(tag)[n].key)

\* C9 as stated: when one document holds occurrences of the same key with
\* conflicting types, the two-phase resolution yields, for some key, a type that
\* differs from the one resolved in occurrence order over the whole corpus.
C9_TwoPhaseDiverges == (written /\ ConflictingTypes) => Diverges

\* C9 as amended: the two-phase resolution always yields the type resolved in
\* occurrence order over the whole corpus, conflicting types in one document
\* included.
C9_TwoPhaseIsOccurrenceOrder == written => ~Diverges

\* A document with conflicting types for a key comes after a document that has
\* the key without a type.
C9_Witness ==
    /\ written
    /\ ConflictingTypes
    /\ Len(files) = 2
    /\ \E k \in Keys :
          /\ Occs(docs[files[1]], "persName", k) > 0
          /\ k \in DOMAIN key_to_type_persons
          /\ \A n \in OccsAt(docs[files[1]], "persName", k) : docs[files[1]][n].type = ""

\* A string is collapsed and trimmed.
Collapsed(s) ==
    /\ \A n \in 1..Len(s) : s[n] # "\t"
    /\ \A n \in 1..(Len(s) - 1) : ~(s[n] = " " /\ s[n + 1] = " ")
    /\ s # <<>> => s[1] # " " /\ s[Len(s)] # " "

\* The lemma the claim describes for an occurrence.
ClaimedLemma(el) ==
    IF el.ws = <<>> THEN <<>>
    ELSE IF \E n \in 1..Len(el.ws) : el.ws[n].lemma # <<>>
         THEN collapse_spaces(JoinSpace(
                  [n \in 1..Len(SelectSeq(el.ws, LAMBDA w : w.lemma # <<>>)) |->
                      SelectSeq(el.ws, LAMBDA w : w.lemma # <<>>)[n].lemma]))
         ELSE collapse_spaces(JoinSpace([n \in 1..Len(el.ws) |-> el.ws[n].text]))

\* C10: for every occurrence of the document just read, build_lemma_from_w is
\* the collapsed join of the canonical forms of the tokens that have one if any
\* token has one, otherwise the collapsed join of the tokens' literal text, and
\* empty without tokens; a keyed occurrence without tokens is counted and leaves
\* the lemmas recorded earlier in its document unchanged.
C10_BuildLemma ==
    pc = "places" =>
        /\ \A n \in 1..Len(docs[files[i]]) :
              /\ build_lemma_from_w(docs[files[i]][n]) = ClaimedLemma(docs[files[i]][n])
              /\ Collapsed(build_lemma_from_w(docs[files[i]][n]))
        /\ \A tag \in Tags :
              LET hits == Hits(docs[files[i]], tag) IN
              \A n \in 1..Len(hits) :
                  LET before == ScanHits(SubSeq(hits, 1, n - 1))
                      after == ScanHits(SubSeq(hits, 1, n))
                      k == hits[n].key
                  IN (k # <<>> /\ hits[n].ws = <<>>) =>
                        /\ after.counts[k] =
                              (IF k \in DOMAIN before.counts THEN before.counts[k] ELSE 0) + 1
                        /\ after.k2l = before.k2l

\* A document where an occurrence without tokens follows an occurrence of the
\* same key whose lemma comes from the one token that has a canonical form.
C10_Witness ==
    /\ pc = "places"
    /\ \E n \in 2..Len(docs[files[i]]) :
          /\ docs[files[i]][n].ws = <<>>
          /\ docs[files[i]][n].key # <<>>
          /\ docs[files[i]][n - 1].key = docs[files[i]][n].key
          /\ docs[files[i]][n - 1].tag = docs[files[i]][n].tag
          /\ docs[files[i]][n - 1].ws = W_mixed
          /\ per_file_counts_persons[files[i]][docs[files[i]][n].key] = 2

====
